---- MODULE Spec2Model ----
(***************************************************************************)
(* A model of daze (src/daze.py): the RC4 keystream (Cipher), the          *)
(* obfuscating connection (GravityDazeConn), the copy loop and the splice, *)
(* the server handshake (Server._serve) fed by Client.connect, the router  *)
(* (Dialer), the SOCKS5 ingress (Locale) and the worker pool shared by the *)
(* sessions and their submitted copy loops.                                *)
(*                                                                         *)
(* Bytes are the integers 0..255, byte strings are sequences of bytes and  *)
(* text is the sequence of its ASCII codes.  Each component has its own    *)
(* specification (SpecCipher, SpecSplice, SpecServer, SpecDialer,          *)
(* SpecLocale, SpecPool) over its own group of variables; the other groups *)
(* stay at their idle value.  FairSpecTeardown and FairSpecPool add the    *)
(* fairness of the threads' scheduling for the termination properties.     *)
(***************************************************************************)
EXTENDS Integers, Sequences, FiniteSets, TLC

VARIABLES
    \* ---- Cipher / GravityDazeConn harness (SpecCipher)
    ck,        \* the key both ends were built with
    cmsg,      \* the byte sequence M to transform / the data to send
    cpc,       \* "fresh", "encrypted", "decrypted": the two transforms of M
    enc,       \* Cipher(K) applied to M            (once encrypted)
    dec,       \* a second Cipher(K) applied to enc (once decrypted)
    tx,        \* the sending GravityDazeConn   [wc, rc]
    rx,        \* the receiving GravityDazeConn [wc, rc]
    wire,      \* bytes written by tx.socket.sendall, not yet read by rx
    sent,      \* concatenation of the data passed to tx.send
    rcvd,      \* concatenation of the results of rx.recv
    sendLens,  \* the lengths of the send calls, in order
    recvLens,  \* the lengths of the recv results, in order
    \* ---- the splice of one session (SpecSplice): endpoint "a" is the
    \* accepted socket (Server: conn over sock, Locale: sock), endpoint "b"
    \* is dest; loop "pool" is the submitted copy(a, b), loop "inline" is
    \* copy(b, a) run by the session's worker
    site,      \* "server", "tunneled" (Locale, dest from Client.connect), "direct"
    fpc,       \* the serving function: "submit", "inline", "returned", "closed"
    lpc,       \* each copy loop's position
    ldata,     \* each copy loop's local variable data
    why,       \* why each loop left its while loop: "", "eof", "rerr", "werr"
    rd,        \* per loop: the non-empty results of src.recv, concatenated
    closed,    \* per endpoint: close() was called on it
    rbuf,      \* per endpoint: raw bytes that arrived and were not read yet
    eof,       \* per endpoint: the remote end finished sending
    broken,    \* per endpoint: the connection was reset
    wbuf,      \* per endpoint: raw bytes the socket accepted for sending
    conn,      \* per endpoint: its GravityDazeConn ciphers (NoConn when raw)
    peer,      \* per endpoint: the remote end's GravityDazeConn ciphers
    fed,       \* per endpoint: how many payload bytes the remote end has sent
    delivered, \* per endpoint: what the remote end has received, as it reads it
    \* ---- one session of the server, from Client.connect (or a sender of
    \* its own making) to the splice (SpecServer)
    origin,    \* "client": Client.connect made the stream; else the kind of crafted stream
    cHost,     \* the host Client.connect was asked to reach (text)
    cPort,     \* the port Client.connect was asked to reach
    cClock,    \* the client's clock, in seconds
    kpc,       \* the sender: "start", "sent", "failed"
    plain,     \* the bytes the sender passed through its write cipher
    inq,       \* raw bytes sent to the server and not read yet
    inqEOF,    \* the sender has closed the connection
    now,       \* the server's clock: whole seconds
    nowFrac,   \* the server's clock has a fraction of a second on top
    vpc,       \* Server._serve / serve: the position of the session's worker
    skey,      \* data of line 114, the key the server read
    sconn,     \* conn of line 115
    frame,     \* data of line 116, as the server read it
    hdr,       \* data of line 123, as the server read it
    dHost,     \* host of line 126 (text)
    dPort,     \* port of line 127
    dialed,    \* the (host, port) pairs dest.connect was called with
    destOpen,  \* the session's outbound socket exists and is not closed
    sockClosed,\* sock.close() of line 144 was called
    err,       \* the exception that ended _serve, "" when none
    later,     \* Server.run: connections accepted and submitted after the
               \* session left its handshake
    laterServed, \* how many of them a worker of the pool has begun to serve
    \* ---- one call of Dialer.connect(host, port) (SpecDialer)
    qHost,     \* host: an IP literal or a DNS name
    qPort,     \* port
    dns,       \* what self.res.query(host) did: "", "answer", "empty", "raise"
    ip,        \* ip of surmise, NoIP until it is assigned
    road,      \* road of line 287, -1 until surmise has returned
    dpc,       \* connect: "surmise", "direct", "tunnel", "returned", "raised"
    dials,     \* the dials made, in order: "direct", "tunnel"
    route,     \* the stream connect returned: "", "direct", "tunnel"
    \* ---- one session of the SOCKS5 ingress (SpecLocale)
    lcli,      \* the local client: "start", "greeted", "requested", "closed"
    lgreet,    \* the greeting the local client sends
    lreq,      \* the request the local client sends
    lin,       \* bytes the local client sent, not yet read by Locale
    lout,      \* bytes sock.send accepted, in order
    xpc,       \* Locale._serve / serve: the position of the session's worker
    xdata,     \* data of _serve
    xhost,     \* host of _serve (text)
    xport,     \* port of line 216
    xdial,     \* self.dialer.connect: "" (not called), "ok", "raise"
    xdest,     \* dest: "none", "open", "closed"
    xsock,     \* sock: "open", "closed"
    xreply,    \* the bytes of the reply of line 220 or 223 that sock.send accepted
    xrelayed,  \* how many bytes copy(dest, sock) has sent to the local client
    xerr,      \* the exception that ended _serve, "" when none
    \* ---- the worker pool of one process (Server.executor, Locale.executor)
    \* and the sessions in progress on it, none of which has ended (SpecPool)
    hs,        \* sessions whose worker is in _serve before the splice
    waiting,   \* sessions at the splice whose submitted copy has not started
    running    \* sessions at the splice with both copy loops running

cipherVars == <<ck, cmsg, cpc, enc, dec, tx, rx, wire, sent, rcvd, sendLens, recvLens>>

spliceVars == <<site, fpc, lpc, ldata, why, rd, closed, rbuf, eof, broken, wbuf,
                conn, peer, fed, delivered>>

serverVars == <<origin, cHost, cPort, cClock, kpc, plain, inq, inqEOF, now, nowFrac,
                vpc, skey, sconn, frame, hdr, dHost, dPort, dialed, destOpen,
                sockClosed, err, later, laterServed>>

dialerVars == <<qHost, qPort, dns, ip, road, dpc, dials, route>>

localeVars == <<lcli, lgreet, lreq, lin, lout, xpc, xdata, xhost, xport, xdial,
                xdest, xsock, xreply, xrelayed, xerr>>

poolVars == <<hs, waiting, running>>

vars == <<cipherVars, spliceVars, serverVars, dialerVars, localeVars, poolVars>>

nonCipherVars == <<spliceVars, serverVars, dialerVars, localeVars, poolVars>>
nonSpliceVars == <<cipherVars, serverVars, dialerVars, localeVars, poolVars>>
nonServerVars == <<cipherVars, spliceVars, dialerVars, localeVars, poolVars>>
nonDialerVars == <<cipherVars, spliceVars, serverVars, localeVars, poolVars>>
nonLocaleVars == <<cipherVars, spliceVars, serverVars, dialerVars, poolVars>>
nonPoolVars == <<cipherVars, spliceVars, serverVars, dialerVars, localeVars>>

\* ------------------------------------------------------------------ bounds

MaxKeyLen == 2      \* short keys have 1..MaxKeyLen bytes
MaxMsgLen == 3      \* messages have 0..MaxMsgLen bytes

KeyBytes == {1, 254}
MsgBytes == {0, 200}
MaxPayload == 2     \* each remote end sends at most MaxPayload bytes into a splice
MaxLater == 2       \* Server.run accepts at most MaxLater later connections
MaxShort == 2       \* a recv of the handshake returns up to MaxShort bytes fewer
                    \* than it could

\* ------------------------------------------------------------------- bytes

Byte == 0..255

SeqsUpTo(S, n) == UNION {[1..m -> S] : m \in 0..n}

\* A key of n bytes.
LongKey(n) == [q \in 1..n |-> (q * 7 + 3) % 256]

Bit(a, n) == (a \div (2 ^ n)) % 2

\* The mutant of XorByte: the keystream byte is added instead of xored.
XorByteAdd(a, b) == (a + b) % 256

\* v ^ k on two bytes (daze.py:58).
XorByte(a, b) ==
    ((Bit(a, 0) + Bit(b, 0)) % 2) + 2 * ((Bit(a, 1) + Bit(b, 1)) % 2)
    + 4 * ((Bit(a, 2) + Bit(b, 2)) % 2) + 8 * ((Bit(a, 3) + Bit(b, 3)) % 2)
    + 16 * ((Bit(a, 4) + Bit(b, 4)) % 2) + 32 * ((Bit(a, 5) + Bit(b, 5)) % 2)
    + 64 * ((Bit(a, 6) + Bit(b, 6)) % 2) + 128 * ((Bit(a, 7) + Bit(b, 7)) % 2)

\* ------------------------------------------------------------------ Cipher
\* self.s is the sequence s with self.s[n] = s[n + 1].

\* self.s[i], self.s[j] = self.s[j], self.s[i]
Swap(s, i, j) == [s EXCEPT ![i + 1] = s[j + 1], ![j + 1] = s[i + 1]]

\* list(range(256))
Identity == <<>> \o [n \in 1..256 |-> n - 1]

\* One round of the key schedule loop (daze.py:45-46).
KsaStep(st, i, key) ==
    LET j2 == (st.j + st.s[i + 1] + key[(i % Len(key)) + 1]) % 256
    IN [s |-> Swap(st.s, i, j2), j |-> j2]

\* for i in range(lo, hi): the rounds lo..hi-1 in order.  The range is run
\* by halves, the first half before the second, which keeps TLC's
\* evaluation depth logarithmic; the rounds and their order are the loop's.
RECURSIVE KeySchedule(_, _, _, _)
KeySchedule(st, lo, hi, key) ==
    IF hi - lo = 1 THEN KsaStep(st, lo, key)
    ELSE LET mid == (lo + hi) \div 2
             left == KeySchedule(st, lo, mid, key)
         IN IF left.j >= 0 THEN KeySchedule(left, mid, hi, key) ELSE left

\* Cipher.__init__ raises KeySizeError.
KeySizeError(key) == Len(key) < 1 \/ Len(key) > 256

\* The value standing for "no cipher was constructed".
NoCipher == [s |-> <<>>, i |-> 0, j |-> 0]

\* Cipher(key)
Cipher(key) ==
    IF KeySizeError(key) THEN NoCipher
    ELSE [s |-> KeySchedule([s |-> Identity, j |-> 0], 0, 256, key).s,
          i |-> 0, j |-> 0]

\* One round of the loop of xor_key_stream_generic (daze.py:55-58) on the
\* running (s, i, j) and the output so far.
XorStep(st, v) ==
    LET i2 == (st.i + 1) % 256
        j2 == (st.j + (st.s[i2 + 1] % 256)) % 256
        s2 == Swap(st.s, i2, j2)
    IN [s |-> s2, i |-> i2, j |-> j2,
        out |-> Append(st.out,
                       XorByte(v, s2[((s2[i2 + 1] + s2[j2 + 1]) % 256) + 1] % 256))]

\* for k, v in enumerate(src): the bytes lo..hi of src in order (by halves,
\* as KeySchedule).
RECURSIVE XorLoop(_, _, _, _)
XorLoop(st, src, lo, hi) ==
    IF hi < lo THEN st
    ELSE IF hi = lo THEN XorStep(st, src[lo])
    ELSE LET mid == (lo + hi) \div 2
             left == XorLoop(st, src, lo, mid)
         IN IF left.j >= 0 THEN XorLoop(left, src, mid + 1, hi) ELSE left

\* The mutant of xor_key_stream_generic: line 59 (self.i, self.j = i, j) is
\* missing, so the next call starts again from the old indices.
xor_key_stream_forget(c, src) ==
    LET r == XorLoop([s |-> c.s, i |-> c.i, j |-> c.j, out |-> <<>>], src, 1, Len(src))
    IN [c |-> [s |-> r.s, i |-> c.i, j |-> c.j], out |-> r.out]

\* Cipher.xor_key_stream_generic(src): the cipher afterwards and the result.
xor_key_stream_generic(c, src) ==
    LET r == XorLoop([s |-> c.s, i |-> c.i, j |-> c.j, out |-> <<>>], src, 1, Len(src))
    IN [c |-> [s |-> r.s, i |-> r.i, j |-> r.j], out |-> r.out]

\* --------------------------------------------------------- GravityDazeConn

\* GravityDazeConn(socket, k): two ciphers of their own, both from k.
GravityDazeConn(k) == [wc |-> Cipher(k), rc |-> Cipher(k)]

\* No connection object.
NoConn == [wc |-> NoCipher, rc |-> NoCipher]

\* GravityDazeConn.send(data): the connection afterwards and the bytes
\* handed to socket.sendall.
ConnSend(gc, data) ==
    LET r == xor_key_stream_generic(gc.wc, data)
    IN [conn |-> [gc EXCEPT !.wc = r.c], out |-> r.out]

\* GravityDazeConn.recv(size) when socket.recv returned raw: the connection
\* afterwards and the result.
ConnRecv(gc, raw) ==
    LET r == xor_key_stream_generic(gc.rc, raw)
    IN [conn |-> [gc EXCEPT !.rc = r.c], out |-> r.out]

\* The harness at rest, for the specifications of the other components.
IdleCipher ==
    /\ ck = <<>> /\ cmsg = <<>> /\ cpc = "idle" /\ enc = <<>> /\ dec = <<>>
    /\ tx = NoConn /\ rx = NoConn /\ wire = <<>> /\ sent = <<>> /\ rcvd = <<>>
    /\ sendLens = <<>> /\ recvLens = <<>>

\* ------------------------------------------------------ copy and the splice

ChunkSize == 32768      \* src.recv(32 * 1024)

Ends == {"a", "b"}
Loops == {"pool", "inline"}

\* The mutant of Src: the inline call is copy(a, b) as well, so both
\* loops read from a.
SrcBothA(l) == "a"

\* executor.submit(copy, a, b) and copy(b, a): the streams of each loop.
Src(l) == IF l = "pool" THEN "a" ELSE "b"
Dst(l) == IF l = "pool" THEN "b" ELSE "a"

\* Which endpoints are GravityDazeConn objects: Server._serve splices conn
\* with the raw socket dest; Locale._serve splices the raw socket sock with
\* what Dialer.connect returned, a raw socket or Client.connect's conn.
Framed(s, e) == (s = "server" /\ e = "a") \/ (s = "tunneled" /\ e = "b")

Min(x, y) == IF x <= y THEN x ELSE y

IsPrefix(p, q) == Len(p) <= Len(q) /\ p = SubSeq(q, 1, Len(p))

\* The bytes the remote end of each endpoint has to send.
Payload(e) == IF e = "a" THEN [q \in 1..MaxPayload |-> 10 + q]
              ELSE [q \in 1..MaxPayload |-> 200 + q]

\* The key of the session, Client.connect's 128 random bytes.
SessionKey == LongKey(128)

PayloadLen == 386       \* Client.connect sends 386 bytes through conn

\* A cipher after the handshake went through it.
AfterHandshake(c) == xor_key_stream_generic(c, [q \in 1..PayloadLen |-> 0]).c

\* The GravityDazeConn on the client side after Client.connect, and on the
\* server side when Server._serve reaches the splice.
ClientConn == [GravityDazeConn(SessionKey) EXCEPT !.wc = AfterHandshake(@)]
ServerConn == [GravityDazeConn(SessionKey) EXCEPT !.rc = AfterHandshake(@)]

IdleSplice ==
    /\ site = "idle" /\ fpc = "idle"
    /\ lpc = [l \in Loops |-> "idle"]
    /\ ldata = [l \in Loops |-> <<>>]
    /\ why = [l \in Loops |-> ""]
    /\ rd = [l \in Loops |-> <<>>]
    /\ closed = [e \in Ends |-> FALSE]
    /\ rbuf = [e \in Ends |-> <<>>]
    /\ eof = [e \in Ends |-> FALSE]
    /\ broken = [e \in Ends |-> FALSE]
    /\ wbuf = [e \in Ends |-> <<>>]
    /\ conn = [e \in Ends |-> NoConn]
    /\ peer = [e \in Ends |-> NoConn]
    /\ fed = [e \in Ends |-> 0]
    /\ delivered = [e \in Ends |-> <<>>]

\* The session at the line before executor.submit(copy, ...).
InitSplice ==
    /\ site \in {"server", "tunneled", "direct"}
    /\ fpc = "submit"
    /\ lpc = [l \in Loops |-> "none"]
    /\ ldata = [l \in Loops |-> <<>>]
    /\ why = [l \in Loops |-> ""]
    /\ rd = [l \in Loops |-> <<>>]
    /\ closed = [e \in Ends |-> FALSE]
    /\ rbuf = [e \in Ends |-> <<>>]
    /\ eof = [e \in Ends |-> FALSE]
    /\ broken = [e \in Ends |-> FALSE]
    /\ wbuf = [e \in Ends |-> <<>>]
    /\ conn = [e \in Ends |->
                 IF ~Framed(site, e) THEN NoConn
                 ELSE IF site = "server" THEN ServerConn ELSE ClientConn]
    /\ peer = [e \in Ends |->
                 IF ~Framed(site, e) THEN NoConn
                 ELSE IF site = "server" THEN ClientConn ELSE ServerConn]
    /\ fed = [e \in Ends |-> 0]
    /\ delivered = [e \in Ends |-> <<>>]

\* executor.submit(copy, a, b), then the worker enters copy(b, a).
Submit ==
    /\ fpc = "submit"
    /\ fpc' = "inline"
    /\ lpc' = [lpc EXCEPT !["pool"] = "queued", !["inline"] = "top"]
    /\ UNCHANGED <<site, ldata, why, rd, closed, rbuf, eof, broken, wbuf, conn,
                   peer, fed, delivered>>
    /\ UNCHANGED nonSpliceVars

\* A worker of the pool takes the submitted copy.
PoolStart ==
    /\ lpc["pool"] = "queued"
    /\ lpc' = [lpc EXCEPT !["pool"] = "top"]
    /\ UNCHANGED <<site, fpc, ldata, why, rd, closed, rbuf, eof, broken, wbuf, conn,
                   peer, fed, delivered>>
    /\ UNCHANGED nonSpliceVars

\* copy: the loop calls src.recv(32 * 1024).  On a socket this process has
\* closed the call raises at once (except Exception: break).
RecvCall(l) ==
    /\ lpc[l] = "top"
    /\ IF closed[Src(l)]
       THEN /\ lpc' = [lpc EXCEPT ![l] = "close_src"]
            /\ why' = [why EXCEPT ![l] = "rerr"]
       ELSE /\ lpc' = [lpc EXCEPT ![l] = "inrecv"]
            /\ UNCHANGED why
    /\ UNCHANGED <<site, fpc, ldata, rd, closed, rbuf, eof, broken, wbuf, conn,
                   peer, fed, delivered>>
    /\ UNCHANGED nonSpliceVars

\* src.recv returns n bytes, at most 32 KiB of those that arrived; a
\* GravityDazeConn passes them through its read cipher.
RecvReturn(l, n) ==
    /\ lpc[l] = "inrecv"
    /\ ~broken[Src(l)]
    /\ n <= Min(ChunkSize, Len(rbuf[Src(l)]))
    /\ LET raw == SubSeq(rbuf[Src(l)], 1, n)
           r == IF Framed(site, Src(l)) THEN ConnRecv(conn[Src(l)], raw)
                ELSE [conn |-> conn[Src(l)], out |-> raw]
       IN /\ conn' = [conn EXCEPT ![Src(l)] = r.conn]
          /\ ldata' = [ldata EXCEPT ![l] = r.out]
          /\ rd' = [rd EXCEPT ![l] = @ \o r.out]
    /\ rbuf' = [rbuf EXCEPT ![Src(l)] = SubSeq(@, n + 1, Len(@))]
    /\ lpc' = [lpc EXCEPT ![l] = "send"]
    /\ UNCHANGED <<site, fpc, why, closed, eof, broken, wbuf, peer, fed, delivered>>
    /\ UNCHANGED nonSpliceVars

\* src.recv returns b'' at the end of the stream: if not data: break.
RecvEOF(l) ==
    /\ lpc[l] = "inrecv"
    /\ ~broken[Src(l)]
    /\ rbuf[Src(l)] = <<>>
    /\ eof[Src(l)]
    /\ ldata' = [ldata EXCEPT ![l] = <<>>]
    /\ why' = [why EXCEPT ![l] = "eof"]
    /\ lpc' = [lpc EXCEPT ![l] = "close_src"]
    /\ UNCHANGED <<site, fpc, rd, closed, rbuf, eof, broken, wbuf, conn, peer, fed,
                   delivered>>
    /\ UNCHANGED nonSpliceVars

\* src.recv raises (the connection was reset, or the socket was closed under
\* the call): except Exception: break.
RecvRaise(l) ==
    /\ lpc[l] = "inrecv"
    /\ broken[Src(l)] \/ closed[Src(l)]
    /\ why' = [why EXCEPT ![l] = "rerr"]
    /\ lpc' = [lpc EXCEPT ![l] = "close_src"]
    /\ UNCHANGED <<site, fpc, ldata, rd, closed, rbuf, eof, broken, wbuf, conn, peer,
                   fed, delivered>>
    /\ UNCHANGED nonSpliceVars

\* The mutant of OnWriteError: return instead of break.
OnWriteErrorReturn == "done"

\* Where copy goes when dst.send raises: except Exception: break, to the
\* two close calls after the loop.
OnWriteError == "close_src"

\* dst.send(data) raises: dst was closed by this process or reset.
SendRaise(l) ==
    /\ lpc[l] = "send"
    /\ broken[Dst(l)] \/ closed[Dst(l)]
    /\ why' = [why EXCEPT ![l] = "werr"]
    /\ lpc' = [lpc EXCEPT ![l] = OnWriteError]
    /\ UNCHANGED <<site, fpc, ldata, rd, closed, rbuf, eof, broken, wbuf, conn, peer,
                   fed, delivered>>
    /\ UNCHANGED nonSpliceVars

\* dst.send(data) on a GravityDazeConn: the write cipher transforms data and
\* socket.sendall writes all of it; the remote end reads it through its read
\* cipher.
SendFramed(l) ==
    /\ lpc[l] = "send"
    /\ Framed(site, Dst(l))
    /\ ~broken[Dst(l)] /\ ~closed[Dst(l)]
    /\ LET r == ConnSend(conn[Dst(l)], ldata[l])
           p == ConnRecv(peer[Dst(l)], r.out)
       IN /\ conn' = [conn EXCEPT ![Dst(l)] = r.conn]
          /\ wbuf' = [wbuf EXCEPT ![Dst(l)] = @ \o r.out]
          /\ peer' = [peer EXCEPT ![Dst(l)] = p.conn]
          /\ delivered' = [delivered EXCEPT ![Dst(l)] = @ \o p.out]
    /\ lpc' = [lpc EXCEPT ![l] = "top"]
    /\ UNCHANGED <<site, fpc, ldata, why, rd, closed, rbuf, eof, broken, fed>>
    /\ UNCHANGED nonSpliceVars

\* dst.send(data) on a raw socket: socket.send takes the first k bytes,
\* 1 <= k <= len(data), and returns k; copy does not look at the result.
SendRaw(l, k) ==
    /\ lpc[l] = "send"
    /\ ~Framed(site, Dst(l))
    /\ ~broken[Dst(l)] /\ ~closed[Dst(l)]
    /\ k <= Len(ldata[l])
    /\ wbuf' = [wbuf EXCEPT ![Dst(l)] = @ \o SubSeq(ldata[l], 1, k)]
    /\ delivered' = [delivered EXCEPT ![Dst(l)] = @ \o SubSeq(ldata[l], 1, k)]
    /\ lpc' = [lpc EXCEPT ![l] = "top"]
    /\ UNCHANGED <<site, fpc, ldata, why, rd, closed, rbuf, eof, broken, conn, peer,
                   fed>>
    /\ UNCHANGED nonSpliceVars

\* src.close()
CloseSrc(l) ==
    /\ lpc[l] = "close_src"
    /\ closed' = [closed EXCEPT ![Src(l)] = TRUE]
    /\ lpc' = [lpc EXCEPT ![l] = "close_dst"]
    /\ UNCHANGED <<site, fpc, ldata, why, rd, rbuf, eof, broken, wbuf, conn, peer,
                   fed, delivered>>
    /\ UNCHANGED nonSpliceVars

\* dst.close(), and copy returns.
CloseDst(l) ==
    /\ lpc[l] = "close_dst"
    /\ closed' = [closed EXCEPT ![Dst(l)] = TRUE]
    /\ lpc' = [lpc EXCEPT ![l] = "done"]
    /\ UNCHANGED <<site, fpc, ldata, why, rd, rbuf, eof, broken, wbuf, conn, peer,
                   fed, delivered>>
    /\ UNCHANGED nonSpliceVars

\* The mutant of InlineCopyReturned: the second copy is handed to the
\* executor as well, so the function falls through at once.
InlineCopySubmitted == lpc["inline"] # "none"

\* copy(dest, conn) / copy(dest, sock), the last statement of _serve, has
\* returned.
InlineCopyReturned == lpc["inline"] = "done"

\* _serve returns to serve.
ServeReturn ==
    /\ fpc = "inline"
    /\ InlineCopyReturned
    /\ fpc' = "returned"
    /\ UNCHANGED <<site, lpc, ldata, why, rd, closed, rbuf, eof, broken, wbuf, conn,
                   peer, fed, delivered>>
    /\ UNCHANGED nonSpliceVars

\* serve: sock.close() after _serve.
ServeClose ==
    /\ fpc = "returned"
    /\ fpc' = "closed"
    /\ closed' = [closed EXCEPT !["a"] = TRUE]
    /\ UNCHANGED <<site, lpc, ldata, why, rd, rbuf, eof, broken, wbuf, conn, peer,
                   fed, delivered>>
    /\ UNCHANGED nonSpliceVars

\* The remote end of e sends the next n bytes of its payload (through its
\* write cipher when e is a GravityDazeConn).
PeerSend(e, n) ==
    /\ fpc # "submit"
    /\ ~eof[e] /\ ~broken[e]
    /\ fed[e] + n <= Len(Payload(e))
    /\ LET data == SubSeq(Payload(e), fed[e] + 1, fed[e] + n)
           r == IF Framed(site, e) THEN ConnSend(peer[e], data)
                ELSE [conn |-> peer[e], out |-> data]
       IN /\ peer' = [peer EXCEPT ![e] = r.conn]
          /\ rbuf' = [rbuf EXCEPT ![e] = @ \o r.out]
    /\ fed' = [fed EXCEPT ![e] = @ + n]
    /\ UNCHANGED <<site, fpc, lpc, ldata, why, rd, closed, eof, broken, wbuf, conn,
                   delivered>>
    /\ UNCHANGED nonSpliceVars

\* The remote end of e finishes sending.
PeerClose(e) ==
    /\ fpc # "submit"
    /\ ~eof[e] /\ ~broken[e]
    /\ eof' = [eof EXCEPT ![e] = TRUE]
    /\ UNCHANGED <<site, fpc, lpc, ldata, why, rd, closed, rbuf, broken, wbuf, conn,
                   peer, fed, delivered>>
    /\ UNCHANGED nonSpliceVars

\* The connection of e is reset.
PeerReset(e) ==
    /\ fpc # "submit"
    /\ ~broken[e] /\ ~closed[e]
    /\ broken' = [broken EXCEPT ![e] = TRUE]
    /\ UNCHANGED <<site, fpc, lpc, ldata, why, rd, closed, rbuf, eof, wbuf, conn,
                   peer, fed, delivered>>
    /\ UNCHANGED nonSpliceVars

NextSplice ==
    \/ Submit
    \/ PoolStart
    \/ \E l \in Loops : RecvCall(l)
    \/ \E l \in Loops : \E n \in 1..MaxPayload : RecvReturn(l, n)
    \/ \E l \in Loops : RecvEOF(l)
    \/ \E l \in Loops : RecvRaise(l)
    \/ \E l \in Loops : SendRaise(l)
    \/ \E l \in Loops : SendFramed(l)
    \/ \E l \in Loops : \E k \in 1..MaxPayload : SendRaw(l, k)
    \/ \E l \in Loops : CloseSrc(l)
    \/ \E l \in Loops : CloseDst(l)
    \/ ServeReturn
    \/ ServeClose
    \/ \E e \in Ends : \E n \in 1..MaxPayload : PeerSend(e, n)
    \/ \E e \in Ends : PeerClose(e)
    \/ \E e \in Ends : PeerReset(e)

\* -------------------------------------------------- SpecCipher: the harness

\* Keys of valid length: the short ones, a 128-byte key as Client.connect
\* draws, and one of the longest valid length.
Keys == (SeqsUpTo(KeyBytes, MaxKeyLen) \ {<<>>}) \cup {LongKey(128), LongKey(256)}

Messages == SeqsUpTo(MsgBytes, MaxMsgLen)

\* The known-answer test of RC4: the key "Key" and the text "Plaintext".
KatKey == <<75, 101, 121>>
KatPlaintext == <<80, 108, 97, 105, 110, 116, 101, 120, 116>>

InitCipher ==
    /\ \/ ck \in Keys /\ cmsg \in Messages
       \/ ck = KatKey /\ cmsg = KatPlaintext
    /\ cpc = "fresh"
    /\ enc = <<>>
    /\ dec = <<>>
    /\ tx = GravityDazeConn(ck)
    /\ rx = GravityDazeConn(ck)
    /\ wire = <<>>
    /\ sent = <<>>
    /\ rcvd = <<>>
    /\ sendLens = <<>>
    /\ recvLens = <<>>

\* A fresh Cipher(K) transforms M.
Encrypt ==
    /\ cpc = "fresh"
    /\ cpc' = "encrypted"
    /\ enc' = xor_key_stream_generic(Cipher(ck), cmsg).out
    /\ UNCHANGED <<ck, cmsg, dec, tx, rx, wire, sent, rcvd, sendLens, recvLens>>
    /\ UNCHANGED nonCipherVars

\* Another fresh Cipher(K) transforms the result.
Decrypt ==
    /\ cpc = "encrypted"
    /\ cpc' = "decrypted"
    /\ dec' = xor_key_stream_generic(Cipher(ck), enc).out
    /\ UNCHANGED <<ck, cmsg, enc, tx, rx, wire, sent, rcvd, sendLens, recvLens>>
    /\ UNCHANGED nonCipherVars

\* tx.send(data) with data the next n bytes of cmsg; sendall writes all of
\* the transformed bytes.  (The text of the known-answer test, longer than
\* MaxMsgLen, goes through Encrypt and Decrypt only.)
Send(n) ==
    /\ Len(cmsg) <= MaxMsgLen
    /\ Len(sent) + n <= Len(cmsg)
    /\ LET data == SubSeq(cmsg, Len(sent) + 1, Len(sent) + n)
           r == ConnSend(tx, data)
       IN /\ tx' = r.conn
          /\ wire' = wire \o r.out
          /\ sent' = sent \o data
          /\ sendLens' = Append(sendLens, n)
    /\ UNCHANGED <<ck, cmsg, cpc, enc, dec, rx, rcvd, recvLens>>
    /\ UNCHANGED nonCipherVars

\* rx.recv(size): socket.recv returns n bytes, 1 <= n <= size, of those in
\* flight.
Recv(size, n) ==
    /\ n <= size
    /\ n <= Len(wire)
    /\ LET r == ConnRecv(rx, SubSeq(wire, 1, n))
       IN /\ rx' = r.conn
          /\ rcvd' = rcvd \o r.out
    /\ wire' = SubSeq(wire, n + 1, Len(wire))
    /\ recvLens' = Append(recvLens, n)
    /\ UNCHANGED <<ck, cmsg, cpc, enc, dec, tx, sent, sendLens>>
    /\ UNCHANGED nonCipherVars

NextCipher ==
    \/ Encrypt
    \/ Decrypt
    \/ \E n \in 1..MaxMsgLen : Send(n)
    \/ \E size \in 1..MaxMsgLen : \E n \in 1..size : Recv(size, n)

\* ------------------------------------------------- numbers, text, addresses

\* Python's integers are unbounded; a timestamp is kept as five 16-bit limbs,
\* most significant first, which holds every value of 8 bytes and its sums.
Limb == 65536

\* int.from_bytes(bs, 'big') for at most 10 bytes.
NumOfBytes(bs) ==
    LET z == 10 - Len(bs)
        b(i) == IF i > z THEN bs[i - z] ELSE 0
    IN <<b(1) * 256 + b(2), b(3) * 256 + b(4), b(5) * 256 + b(6),
         b(7) * 256 + b(8), b(9) * 256 + b(10)>>

\* a < b
NumLess(a, b) ==
    \E k \in 1..5 : a[k] < b[k] /\ \A j \in 1..(k - 1) : a[j] = b[j]

\* a + k for 0 <= k < 65536
NumAdd(a, k) ==
    LET s5 == a[5] + k
        s4 == a[4] + (s5 \div Limb)
        s3 == a[3] + (s4 \div Limb)
        s2 == a[2] + (s3 \div Limb)
        s1 == a[1] + (s2 \div Limb)
    IN <<s1 % Limb, s2 % Limb, s3 % Limb, s4 % Limb, s5 % Limb>>

Window == 60        \* abs(...) > 60

\* abs(datetime.datetime.now().timestamp() - d) > 60, the clock being n
\* seconds and, with frac, a fraction of a second more.
Expired(n, frac, d) ==
    \/ NumLess(NumAdd(d, Window), n)
    \/ NumAdd(d, Window) = n /\ frac
    \/ NumLess(NumAdd(n, Window), d)

\* struct.pack('>I', t) raises struct.error: t does not fit 32 bits.
PackError(t) == t[1] # 0 \/ t[2] # 0 \/ t[3] # 0

\* struct.pack('>I', t).rjust(8, chr(0).encode())
PackTime(t) ==
    <<0, 0, 0, 0, t[4] \div 256, t[4] % 256, t[5] \div 256, t[5] % 256>>

\* f'{port}' for port >= 0.
RECURSIVE Digits(_)
Digits(n) == IF n < 10 THEN <<48 + n>> ELSE Digits(n \div 10) \o <<48 + (n % 10)>>

Colon == 58

\* f'{host}:{port}'
Address(host, port) == host \o <<Colon>> \o Digits(port)

\* The positions of ':' in dest.
Colons(dest) == {i \in 1..Len(dest) : dest[i] = Colon}

\* The n-th smallest element of a set of positions, 0 when there is none.
Nth(S, n) ==
    IF Cardinality(S) < n THEN 0
    ELSE CHOOSE i \in S : Cardinality({j \in S : j < i}) = n - 1

\* dest.split(':')[0]
Field0(dest) ==
    IF Colons(dest) = {} THEN dest ELSE SubSeq(dest, 1, Nth(Colons(dest), 1) - 1)

\* dest.split(':')[1], when there is a ':'.
Field1(dest) ==
    LET c1 == Nth(Colons(dest), 1)
        c2 == Nth(Colons(dest), 2)
    IN SubSeq(dest, c1 + 1, IF c2 = 0 THEN Len(dest) ELSE c2 - 1)

IsDigits(ds) == ds # <<>> /\ \A i \in 1..Len(ds) : ds[i] \in 48..57

PortLimit == 65535  \* socket.connect: port must be 0-65535

\* int(ds) for a string of decimal digits; every value above 65535 stands
\* for itself as PortLimit + 1 (connect refuses them all alike).
RECURSIVE IntOf(_)
IntOf(ds) ==
    IF ds = <<>> THEN 0
    ELSE LET hi == IntOf(SubSeq(ds, 1, Len(ds) - 1))
             v == hi * 10 + (ds[Len(ds)] - 48)
         IN IF v > PortLimit THEN PortLimit + 1 ELSE v

\* ------------------------------------------------------------- Client.connect

KeyLen == 128       \* bytes(... for _ in range(128)) and sock.recv(128)
FrameLen == 128     \* conn.recv(128)
HeaderLen == 258    \* conn.recv(2 + 256)

\* What random.randint(0, 255) gave for the bytes left as they are.
Pad == 85

\* data of Client.connect when conn.send(data) is called (daze.py:173-181).
ClientData(host, port, t) ==
    LET addr == Address(host, port)
        L == Len(addr)
        time == PackTime(t)
        n == IF 130 + L > PayloadLen THEN 130 + L ELSE PayloadLen
    IN [q \in 1..n |->
          IF q <= 2 THEN 255
          ELSE IF q >= 121 /\ q <= 128 THEN time[q - 120]
          ELSE IF q = 129 THEN 1
          ELSE IF q = 130 THEN L
          ELSE IF q >= 131 /\ q <= 130 + L THEN addr[q - 130]
          ELSE Pad]

\* conn.send(data) raises: bytes(dst) refuses a value above 255.
SendError(data) == \E q \in 1..Len(data) : data[q] > 255

\* ------------------------------------------------------------ Server._serve

Epoch == <<0, 0, 0, 25939, 61696>>      \* 1700000000

\* The server's clock, and the clocks a client may have: 61 and 60 seconds
\* behind, the same, 60 and 61 seconds ahead, and 2^32, the first value that
\* struct.pack('>I', ...) refuses.
ServerNow == NumAdd(Epoch, 61)
ClientClocks ==
    {NumAdd(Epoch, k) : k \in {0, 1, 61, 121, 122}} \cup {<<0, 0, 1, 0, 0>>}

Hosts == {<<97>>,                               \* a
          <<58, 58, 49>>,                       \* ::1
          <<49, 58, 50, 58, 58, 51>>,           \* 1:2::3
          [q \in 1..252 |-> 97]}                \* aaa...a, 252 long
Ports == {80, 443}

\* The streams of senders other than Client.connect: the frame of an honest
\* client at the server's time with one magic byte wrong, and a frame whose
\* timestamp bytes are the server's time moved two bytes up, followed by an
\* address.
CraftedKinds == {"magic0", "magic1", "shifted"}

Crafted(kind, n) ==
    LET good == ClientData(<<97>>, 80, n)
        t == PackTime(n)
        addr == Address(<<97>>, 80)
    IN IF kind = "magic0" THEN [good EXCEPT ![1] = 0]
       ELSE IF kind = "magic1" THEN [good EXCEPT ![2] = 0]
       ELSE [q \in 1..(FrameLen + Len(addr)) |->
               IF q <= 2 THEN 255
               ELSE IF q >= 121 /\ q <= 126 THEN t[q - 118]
               ELSE IF q = 127 THEN 1
               ELSE IF q = 128 THEN Len(addr)
               ELSE IF q > 128 THEN addr[q - 128]
               ELSE Pad]

NoNum == <<0, 0, 0, 0, 0>>

IdleServer ==
    /\ origin = "idle" /\ cHost = <<>> /\ cPort = 0 /\ cClock = NoNum
    /\ kpc = "idle" /\ plain = <<>> /\ inq = <<>> /\ inqEOF = FALSE
    /\ now = NoNum /\ nowFrac = FALSE /\ vpc = "idle" /\ skey = <<>>
    /\ sconn = NoConn /\ frame = <<>> /\ hdr = <<>> /\ dHost = <<>> /\ dPort = 0
    /\ dialed = <<>> /\ destOpen = FALSE /\ sockClosed = FALSE /\ err = ""
    /\ later = 0 /\ laterServed = 0

\* A connection was accepted and handed to serve; its sender has not sent
\* anything yet.
InitServer ==
    /\ \/ /\ origin = "client"
          /\ cHost \in Hosts
          /\ cPort \in Ports
          /\ cClock \in ClientClocks
       \/ /\ origin \in CraftedKinds
          /\ cHost = <<>> /\ cPort = 0 /\ cClock = NoNum
    /\ kpc = "start" /\ plain = <<>> /\ inq = <<>> /\ inqEOF = FALSE
    /\ now = ServerNow /\ nowFrac \in BOOLEAN
    /\ vpc = "recv_key" /\ skey = <<>>
    /\ sconn = NoConn /\ frame = <<>> /\ hdr = <<>> /\ dHost = <<>> /\ dPort = 0
    /\ dialed = <<>> /\ destOpen = FALSE /\ sockClosed = FALSE /\ err = ""
    /\ later = 0 /\ laterServed = 0

\* Client.connect(host, port): the key goes out as it is, then the 386 bytes
\* through conn.  When building or sending data raises, conn.close().
ClientConnect ==
    /\ origin = "client"
    /\ kpc = "start"
    /\ LET data == ClientData(cHost, cPort, cClock)
       IN IF PackError(cClock) \/ SendError(data)
          THEN /\ kpc' = "failed"
               /\ inq' = SessionKey
               /\ inqEOF' = TRUE
               /\ plain' = <<>>
          ELSE /\ kpc' = "sent"
               /\ inq' = SessionKey \o ConnSend(GravityDazeConn(SessionKey), data).out
               /\ inqEOF' = FALSE
               /\ plain' = data
    /\ UNCHANGED <<later, laterServed, origin, cHost, cPort, cClock, now, nowFrac, vpc, skey, sconn,
                   frame, hdr, dHost, dPort, dialed, destOpen, sockClosed, err>>
    /\ UNCHANGED nonServerVars

\* Another sender: a key, then bytes of its own through a cipher of that key.
CraftedConnect ==
    /\ origin \in CraftedKinds
    /\ kpc = "start"
    /\ LET data == Crafted(origin, now)
       IN /\ inq' = SessionKey \o ConnSend(GravityDazeConn(SessionKey), data).out
          /\ plain' = data
    /\ kpc' = "sent"
    /\ UNCHANGED <<later, laterServed, origin, cHost, cPort, cClock, inqEOF, now, nowFrac, vpc, skey,
                   sconn, frame, hdr, dHost, dPort, dialed, destOpen, sockClosed, err>>
    /\ UNCHANGED nonServerVars

\* How many bytes a recv(size) returns when it returns d fewer than it could.
RecvCount(size, d) == Min(size, Len(inq)) - d

\* data[0] != 0xFF or data[1] != 0xFF, for data of two bytes or more.
BadMagic(data) == data[1] # 255 \/ data[2] # 255

\* int.from_bytes(data[120:128], 'big')
Timestamp(data) == NumOfBytes(SubSeq(data, 121, Min(128, Len(data))))

\* A recv of the handshake finds nothing to read: socket.timeout after the
\* 10 seconds of line 113, or b'' when the sender has closed, which Cipher
\* (line 115) or the first index into data (lines 117, 124) refuses.
ServeRecvNothing ==
    /\ vpc \in {"recv_key", "recv_frame", "recv_dest"}
    /\ kpc # "start"
    /\ inq = <<>>
    /\ err' = IF ~inqEOF THEN "timeout"
              ELSE IF vpc = "recv_key" THEN "KeySizeError" ELSE "IndexError"
    /\ vpc' = "raised"
    /\ UNCHANGED <<later, laterServed, origin, cHost, cPort, cClock, kpc, plain, inq, inqEOF, now,
                   nowFrac, skey, sconn, frame, hdr, dHost, dPort, dialed,
                   destOpen, sockClosed>>
    /\ UNCHANGED nonServerVars

\* data = sock.recv(128); conn = GravityDazeConn(sock, data)
ServeRecvKey(d) ==
    /\ vpc = "recv_key"
    /\ kpc # "start"
    /\ RecvCount(KeyLen, d) >= 1
    /\ LET n == RecvCount(KeyLen, d)
       IN /\ skey' = SubSeq(inq, 1, n)
          /\ sconn' = GravityDazeConn(SubSeq(inq, 1, n))
          /\ inq' = SubSeq(inq, n + 1, Len(inq))
    /\ vpc' = "recv_frame"
    /\ UNCHANGED <<later, laterServed, origin, cHost, cPort, cClock, kpc, plain, inqEOF, now, nowFrac,
                   frame, hdr, dHost, dPort, dialed, destOpen, sockClosed, err>>
    /\ UNCHANGED nonServerVars

\* data = conn.recv(128) and the checks of lines 117-122.
ServeRecvFrame(d) ==
    /\ vpc = "recv_frame"
    /\ RecvCount(FrameLen, d) >= 1
    /\ LET n == RecvCount(FrameLen, d)
           r == ConnRecv(sconn, SubSeq(inq, 1, n))
           data == r.out
       IN /\ sconn' = r.conn
          /\ frame' = data
          /\ inq' = SubSeq(inq, n + 1, Len(inq))
          /\ err' = IF data[1] # 255 THEN "malformed"
                    ELSE IF Len(data) < 2 THEN "IndexError"
                    ELSE IF BadMagic(data) THEN "malformed"
                    ELSE IF Expired(now, nowFrac, Timestamp(data)) THEN "expired"
                    ELSE ""
          /\ vpc' = IF err' = "" THEN "recv_dest" ELSE "raised"
    /\ UNCHANGED <<later, laterServed, origin, cHost, cPort, cClock, kpc, plain, inqEOF, now, nowFrac,
                   skey, hdr, dHost, dPort, dialed, destOpen, sockClosed>>
    /\ UNCHANGED nonServerVars

\* dest of line 124: data[2:2 + int(data[1])], for data of two bytes or more.
DestOf(data) == SubSeq(data, 3, Min(2 + data[2], Len(data)))

\* data = conn.recv(2 + 256) and the parsing of lines 124-127.  decode()
\* raises on a byte that is not ASCII (the model has no multi-byte text),
\* seps[1] on a dest without ':', int() on anything but digits.
ServeRecvDest(d) ==
    /\ vpc = "recv_dest"
    /\ RecvCount(HeaderLen, d) >= 1
    /\ LET n == RecvCount(HeaderLen, d)
           r == ConnRecv(sconn, SubSeq(inq, 1, n))
           data == r.out
           dest == DestOf(data)
       IN /\ sconn' = r.conn
          /\ hdr' = data
          /\ inq' = SubSeq(inq, n + 1, Len(inq))
          /\ err' = IF Len(data) < 2 THEN "IndexError"
                    ELSE IF \E i \in 1..Len(dest) : dest[i] > 127
                         THEN "UnicodeDecodeError"
                    ELSE IF Colons(dest) = {} THEN "IndexError"
                    ELSE IF ~IsDigits(Field1(dest)) THEN "ValueError"
                    ELSE ""
          /\ IF err' = ""
             THEN /\ dHost' = Field0(dest)
                  /\ dPort' = IntOf(Field1(dest))
                  /\ vpc' = "dial"
             ELSE /\ UNCHANGED <<dHost, dPort>>
                  /\ vpc' = "raised"
    /\ UNCHANGED <<later, laterServed, origin, cHost, cPort, cClock, kpc, plain, inqEOF, now, nowFrac,
                   skey, frame, dialed, destOpen, sockClosed>>
    /\ UNCHANGED nonServerVars

\* The mutant of DestAfterDialError: dest is left open.
DestLeftOpen == TRUE

\* Whether dest is open after except Exception: dest.close(); raise.
DestAfterDialError == FALSE

PoolSize == 128     \* concurrent.futures.ThreadPoolExecutor(128)

\* The workers of the pool that are busy: the session's, until serve has
\* returned, and those of the later connections (taken not to end).
Busy == (IF vpc = "closed" THEN 0 ELSE 1) + laterServed

\* dest = socket_daze(); dest.connect((host, port)): connect refuses a port
\* above 65535 without dialling, fails, or succeeds; on an exception
\* dest.close() and raise, otherwise sock.settimeout(None) and the splice.
ServeDial(ok) ==
    /\ vpc = "dial"
    /\ IF dPort > PortLimit
       THEN /\ err' = "OverflowError"
            /\ vpc' = "raised"
            /\ UNCHANGED <<dialed, destOpen>>
       ELSE /\ dialed' = Append(dialed, <<dHost, dPort>>)
            /\ destOpen' = IF ok THEN TRUE ELSE DestAfterDialError
            /\ err' = IF ok THEN "" ELSE "OSError"
            /\ vpc' = IF ok THEN "splice" ELSE "raised"
    /\ UNCHANGED <<later, laterServed, origin, cHost, cPort, cClock, kpc, plain, inq, inqEOF, now,
                   nowFrac, skey, sconn, frame, hdr, dHost, dPort, sockClosed>>
    /\ UNCHANGED nonServerVars

\* serve: except Exception as e: print(e), then sock.close().
ServeExcept ==
    /\ vpc = "raised"
    /\ vpc' = "closed"
    /\ sockClosed' = TRUE
    /\ UNCHANGED <<later, laterServed, origin, cHost, cPort, cClock, kpc, plain, inq, inqEOF, now,
                   nowFrac, skey, sconn, frame, hdr, dHost, dPort, dialed,
                   destOpen, err>>
    /\ UNCHANGED nonServerVars

\* Server.run: sock, _ = s.accept(); self.executor.submit(self.serve, sock),
\* for a connection that arrives once the session has left its handshake
\* (what is accepted before does not meet the session).
RunAccept ==
    /\ vpc \in {"raised", "closed", "splice"}
    /\ later < MaxLater
    /\ later' = later + 1
    /\ UNCHANGED <<laterServed, origin, cHost, cPort, cClock, kpc, plain, inq,
                   inqEOF, now, nowFrac, vpc, skey, sconn, frame, hdr, dHost,
                   dPort, dialed, destOpen, sockClosed, err>>
    /\ UNCHANGED nonServerVars

\* A free worker of the pool takes the next submitted serve(sock).
PoolServeLater ==
    /\ laterServed < later
    /\ Busy < PoolSize
    /\ laterServed' = laterServed + 1
    /\ UNCHANGED <<later, origin, cHost, cPort, cClock, kpc, plain, inq, inqEOF,
                   now, nowFrac, vpc, skey, sconn, frame, hdr, dHost, dPort,
                   dialed, destOpen, sockClosed, err>>
    /\ UNCHANGED nonServerVars

NextServer ==
    \/ ClientConnect
    \/ CraftedConnect
    \/ ServeRecvNothing
    \/ \E d \in 0..MaxShort : ServeRecvKey(d)
    \/ \E d \in 0..MaxShort : ServeRecvFrame(d)
    \/ \E d \in 0..MaxShort : ServeRecvDest(d)
    \/ \E ok \in BOOLEAN : ServeDial(ok)
    \/ ServeExcept
    \/ RunAccept
    \/ PoolServeLater

\* -------------------------------------------------------------------- Dialer

\* An address of the ipaddress module: its version and its value in groups
\* of 16 bits, two for IPv4 and eight for IPv6.  A network adds the length of
\* its prefix.
V4(a, b, c, d) == [v |-> 4, g |-> <<a * 256 + b, c * 256 + d>>]
V6(g) == [v |-> 6, g |-> g]
Net(addr, m) == [v |-> addr.v, g |-> addr.g, m |-> m]
NoIP == [v |-> 0, g |-> <<>>]

\* ip in net (ipaddress: False when the versions differ).
InNet(a, net) ==
    /\ a.v = net.v
    /\ \A k \in 1..Len(net.g) :
          IF net.m >= 16 * k THEN a.g[k] = net.g[k]
          ELSE IF net.m <= 16 * (k - 1) THEN TRUE
          ELSE a.g[k] \div 2^(16 * k - net.m) = net.g[k] \div 2^(16 * k - net.m)

\* The networks ip.is_private looks in (ipaddress._private_networks).
PrivateNets ==
    {Net(V4(0, 0, 0, 0), 8), Net(V4(10, 0, 0, 0), 8), Net(V4(127, 0, 0, 0), 8),
     Net(V4(169, 254, 0, 0), 16), Net(V4(172, 16, 0, 0), 12),
     Net(V4(192, 0, 0, 0), 29), Net(V4(192, 0, 0, 170), 31),
     Net(V4(192, 0, 2, 0), 24), Net(V4(192, 168, 0, 0), 16),
     Net(V4(198, 18, 0, 0), 15), Net(V4(198, 51, 100, 0), 24),
     Net(V4(203, 0, 113, 0), 24), Net(V4(240, 0, 0, 0), 4),
     Net(V4(255, 255, 255, 255), 32),
     Net(V6(<<0, 0, 0, 0, 0, 0, 0, 1>>), 128), Net(V6(<<0, 0, 0, 0, 0, 0, 0, 0>>), 128),
     Net(V6(<<0, 0, 0, 0, 0, 65535, 0, 0>>), 96), Net(V6(<<256, 0, 0, 0, 0, 0, 0, 0>>), 64),
     Net(V6(<<8193, 0, 0, 0, 0, 0, 0, 0>>), 23), Net(V6(<<8193, 2, 0, 0, 0, 0, 0, 0>>), 48),
     Net(V6(<<8193, 3512, 0, 0, 0, 0, 0, 0>>), 32), Net(V6(<<8193, 16, 0, 0, 0, 0, 0, 0>>), 28),
     Net(V6(<<64512, 0, 0, 0, 0, 0, 0, 0>>), 7), Net(V6(<<65152, 0, 0, 0, 0, 0, 0, 0>>), 10)}

is_private(a) == \E net \in PrivateNets : InNet(a, net)

\* int(math.log2(n)) for n >= 1
RECURSIVE Log2(_)
Log2(n) == IF n < 2 THEN 0 ELSE 1 + Log2(n \div 2)

\* The lines of the cached file delegated-apnic-latest that the model loads:
\* registry|cc|type|start|value.
DelegatedFile ==
    <<[cc |-> "JP", type |-> "ipv4", start |-> V4(1, 0, 16, 0), value |-> 4096],
      [cc |-> "CN", type |-> "ipv4", start |-> V4(1, 0, 1, 0), value |-> 256],
      [cc |-> "CN", type |-> "ipv6", start |-> V6(<<9217, 0, 0, 0, 0, 0, 0, 0>>), value |-> 32],
      [cc |-> "CN", type |-> "ipv4", start |-> V4(1, 0, 2, 0), value |-> 512],
      [cc |-> "CN", type |-> "ipv4", start |-> V4(36, 0, 0, 0), value |-> 8388608]>>

\* Lines 260-269: the networks of the lines that start with apnic|CN|ipv4,
\* in the order of the file.
RECURSIVE LoadCidrList(_)
LoadCidrList(lines) ==
    IF lines = <<>> THEN <<>>
    ELSE LET line == lines[Len(lines)]
             rest == LoadCidrList(SubSeq(lines, 1, Len(lines) - 1))
         IN IF line.cc = "CN" /\ line.type = "ipv4"
            THEN Append(rest, Net(line.start, 32 - Log2(line.value)))
            ELSE rest

cidr_list == LoadCidrList(DelegatedFile)

\* The mutant of InCidrList: only the first network is looked at.
InFirstCidr(a, list) == list # <<>> /\ InNet(a, list[1])

\* for cidr in self.cidr_list: if ip in cidr: return 0
RECURSIVE InCidrList(_, _)
InCidrList(a, list) ==
    IF list = <<>> THEN FALSE
    ELSE IF InNet(a, list[1]) THEN TRUE
    ELSE InCidrList(a, SubSeq(list, 2, Len(list)))

DIRECT == 0
TUNNELED == 1
TRY_DIRECT_ELSE_TUNNELED == 2

\* Lines 279-284, once ip is known.
SurmiseIP(a) ==
    IF is_private(a) THEN DIRECT
    ELSE IF InCidrList(a, cidr_list) THEN DIRECT
    ELSE TUNNELED

\* The addresses of the model: private, inside each network of the table,
\* just outside them, far outside, and two IPv6 addresses.
Addresses ==
    {V4(10, 0, 0, 1), V4(192, 168, 1, 1), V4(1, 0, 1, 5), V4(1, 0, 3, 7),
     V4(36, 127, 255, 255), V4(1, 0, 4, 1), V4(36, 128, 0, 0), V4(8, 8, 8, 8),
     V4(1, 0, 16, 1),
     V6(<<0, 0, 0, 0, 0, 0, 0, 1>>), V6(<<9217, 0, 0, 0, 0, 0, 0, 1>>)}

\* What an A query may answer with.
Answers == {a \in Addresses : a.v = 4}

Names == {"cn.example", "us.example"}

DialHosts == [kind : {"ip"}, ip : Addresses] \cup [kind : {"name"}, name : Names]

IdleDialer ==
    /\ qHost = [kind |-> "idle"] /\ qPort = 0 /\ dns = "" /\ ip = NoIP
    /\ road = -1 /\ dpc = "idle" /\ dials = <<>> /\ route = ""

\* Dialer.connect(host, port) was called.
InitDialer ==
    /\ qHost \in DialHosts
    /\ qPort \in Ports
    /\ dns = "" /\ ip = NoIP /\ road = -1
    /\ dpc = "surmise" /\ dials = <<>> /\ route = ""

\* The mutant of AfterSurmise: every road begins with the direct dial.
AlwaysDirect(r) == "direct"

\* After road = self.surmise(host): the branch of lines 289-303.
AfterSurmise(r) == IF r = TUNNELED THEN "tunnel" ELSE "direct"

\* surmise of a host that ipaddress.ip_address accepts.
SurmiseLiteral ==
    /\ dpc = "surmise"
    /\ qHost.kind = "ip"
    /\ ip' = qHost.ip
    /\ road' = SurmiseIP(qHost.ip)
    /\ dpc' = AfterSurmise(road')
    /\ UNCHANGED <<qHost, qPort, dns, dials, route>>
    /\ UNCHANGED nonDialerVars

\* surmise of a name: self.res.query(host) answers with a.
SurmiseAnswer(a) ==
    /\ dpc = "surmise"
    /\ qHost.kind = "name"
    /\ dns' = "answer"
    /\ ip' = a
    /\ road' = SurmiseIP(a)
    /\ dpc' = AfterSurmise(road')
    /\ UNCHANGED <<qHost, qPort, dials, route>>
    /\ UNCHANGED nonDialerVars

\* surmise of a name: self.res.query(host) returns an answer that is false
\* (it has no records).
SurmiseEmpty ==
    /\ dpc = "surmise"
    /\ qHost.kind = "name"
    /\ dns' = "empty"
    /\ road' = TRY_DIRECT_ELSE_TUNNELED
    /\ dpc' = AfterSurmise(road')
    /\ UNCHANGED <<qHost, qPort, ip, dials, route>>
    /\ UNCHANGED nonDialerVars

\* surmise of a name: self.res.query(host) raises (dns.resolver.NXDOMAIN,
\* NoAnswer, NoNameservers, dns.exception.Timeout); nothing catches it in
\* surmise or in connect.
SurmiseRaise ==
    /\ dpc = "surmise"
    /\ qHost.kind = "name"
    /\ dns' = "raise"
    /\ dpc' = "raised"
    /\ UNCHANGED <<qHost, qPort, ip, road, dials, route>>
    /\ UNCHANGED nonDialerVars

\* s = socket_daze(); s.connect((host, port)); return s (lines 290-292 and
\* 297-299).  An exception leaves connect when road is 0 and leads to line
\* 301 when road is 2.
DialDirect(ok) ==
    /\ dpc = "direct"
    /\ dials' = Append(dials, "direct")
    /\ IF ok THEN /\ route' = "direct"
                  /\ dpc' = "returned"
       ELSE /\ route' = route
            /\ dpc' = IF road = TRY_DIRECT_ELSE_TUNNELED THEN "tunnel" ELSE "raised"
    /\ UNCHANGED <<qHost, qPort, dns, ip, road>>
    /\ UNCHANGED nonDialerVars

\* return self.client.connect(host, port) (lines 294 and 301).
DialTunnel(ok) ==
    /\ dpc = "tunnel"
    /\ dials' = Append(dials, "tunnel")
    /\ IF ok THEN /\ route' = "tunnel"
                  /\ dpc' = "returned"
       ELSE /\ route' = route
            /\ dpc' = "raised"
    /\ UNCHANGED <<qHost, qPort, dns, ip, road>>
    /\ UNCHANGED nonDialerVars

NextDialer ==
    \/ SurmiseLiteral
    \/ \E a \in Answers : SurmiseAnswer(a)
    \/ SurmiseEmpty
    \/ SurmiseRaise
    \/ \E ok \in BOOLEAN : DialDirect(ok)
    \/ \E ok \in BOOLEAN : DialTunnel(ok)

\* -------------------------------------------------------------------- Locale

Dot == 46

\* ipaddress.IPv4Address(data).compressed for data of 4 bytes.
Dotted(data) ==
    Digits(data[1]) \o <<Dot>> \o Digits(data[2]) \o <<Dot>> \o Digits(data[3])
        \o <<Dot>> \o Digits(data[4])

HexChar(d) == IF d < 10 THEN 48 + d ELSE 87 + d

\* '%x' % n
RECURSIVE Hex(_)
Hex(n) == IF n < 16 THEN <<HexChar(n)>> ELSE Hex(n \div 16) \o <<HexChar(n % 16)>>

\* ':'.join of the hextets lo..hi of g.
RECURSIVE JoinHex(_, _, _)
JoinHex(g, lo, hi) ==
    IF lo > hi THEN <<>>
    ELSE IF lo = hi THEN Hex(g[lo])
    ELSE Hex(g[lo]) \o <<Colon>> \o JoinHex(g, lo + 1, hi)

\* How many zero hextets of g follow each other from position s on.
RECURSIVE ZeroRun(_, _)
ZeroRun(g, s) == IF s > Len(g) \/ g[s] # 0 THEN 0 ELSE 1 + ZeroRun(g, s + 1)

\* ipaddress.IPv6Address(data).compressed for data of 16 bytes: the leftmost
\* longest run of two or more zero hextets becomes '::'.
Compressed(data) ==
    LET g == [k \in 1..8 |-> data[2 * k - 1] * 256 + data[2 * k]]
        best == CHOOSE s \in 1..8 :
                    /\ \A u \in 1..8 : ZeroRun(g, u) <= ZeroRun(g, s)
                    /\ \A u \in 1..(s - 1) : ZeroRun(g, u) < ZeroRun(g, s)
        n == ZeroRun(g, best)
    IN IF n > 1
       THEN JoinHex(g, 1, best - 1) \o <<Colon, Colon>> \o JoinHex(g, best + n, 8)
       ELSE JoinHex(g, 1, 8)

MethodReply == <<5, 0>>                             \* line 200
FailReply == <<5, 1, 0, 1, 0, 0, 0, 0, 0, 0>>       \* line 220
OkReply == <<5, 0, 0, 1, 0, 0, 0, 0, 0, 0>>         \* line 223

\* A byte that copy(dest, sock) relays to the local client.
RelayByte == 200

\* What the local client may send first, and then: CONNECT to an IPv4
\* address, a name, an IPv6 address and an address of an unknown type, and a
\* BIND.
Greetings == {<<5, 1, 0>>, <<5, 2, 0, 2>>}
Requests ==
    {<<5, 1, 0, 1, 10, 0, 0, 1, 0, 80>>,
     <<5, 1, 0, 3, 1, 97, 1, 187>>,
     <<5, 1, 0, 4, 32, 1, 0, 0, 0, 0, 0, 0, 0, 0, 0, 0, 0, 0, 0, 1, 0, 80>>,
     <<5, 1, 0, 5, 0, 0, 0, 80>>,
     <<5, 2, 0, 1, 10, 0, 0, 1, 0, 80>>}

IdleLocale ==
    /\ lcli = "idle" /\ lgreet = <<>> /\ lreq = <<>> /\ lin = <<>> /\ lout = <<>>
    /\ xpc = "idle" /\ xdata = <<>> /\ xhost = <<>> /\ xport = 0 /\ xdial = ""
    /\ xdest = "none" /\ xsock = "idle" /\ xreply = <<>> /\ xrelayed = 0 /\ xerr = ""

\* A connection of a local client was accepted and handed to serve.
InitLocale ==
    /\ lcli = "start" /\ lgreet \in Greetings /\ lreq \in Requests
    /\ lin = <<>> /\ lout = <<>>
    /\ xpc = "greet" /\ xdata = <<>> /\ xhost = <<>> /\ xport = 0 /\ xdial = ""
    /\ xdest = "none" /\ xsock = "open" /\ xreply = <<>> /\ xrelayed = 0 /\ xerr = ""

\* The local client sends its greeting, then its request, and may close at
\* any time.
LocalGreet ==
    /\ lcli = "start"
    /\ lcli' = "greeted"
    /\ lin' = lin \o lgreet
    /\ UNCHANGED <<lgreet, lreq, lout, xpc, xdata, xhost, xport, xdial, xdest,
                   xsock, xreply, xrelayed, xerr>>
    /\ UNCHANGED nonLocaleVars

LocalRequest ==
    /\ lcli = "greeted"
    /\ lcli' = "requested"
    /\ lin' = lin \o lreq
    /\ UNCHANGED <<lgreet, lreq, lout, xpc, xdata, xhost, xport, xdial, xdest,
                   xsock, xreply, xrelayed, xerr>>
    /\ UNCHANGED nonLocaleVars

LocalClose ==
    /\ lcli \in {"start", "greeted", "requested"}
    /\ lcli' = "closed"
    /\ UNCHANGED <<lgreet, lreq, lin, lout, xpc, xdata, xhost, xport, xdial,
                   xdest, xsock, xreply, xrelayed, xerr>>
    /\ UNCHANGED nonLocaleVars

Max(a, b) == IF a > b THEN a ELSE b

\* The results sock.recv(size) may return now: nothing for a size of 0 and
\* at the end of the stream, otherwise a piece of what has arrived; none
\* while the call blocks.
LocaleRecv(size) ==
    IF size = 0 THEN {<<>>}
    ELSE IF lin = <<>> THEN (IF lcli = "closed" THEN {<<>>} ELSE {})
    ELSE {SubSeq(lin, 1, n) :
            n \in Max(1, Min(size, Len(lin)) - MaxShort)..Min(size, Len(lin))}

\* The results of sock.send(data): the number of bytes the socket accepted,
\* or 0 for an exception, which needs the local client to have closed.
LocaleSend(data) ==
    (Max(1, Len(data) - MaxShort)..Len(data))
        \cup (IF lcli = "closed" THEN {0} ELSE {})

Rest(data) == SubSeq(lin, Len(data) + 1, Len(lin))

\* data = sock.recv(2); n = int(data[1])
LocaleGreeting ==
    /\ xpc = "greet"
    /\ \E data \in LocaleRecv(2) :
          /\ lin' = Rest(data)
          /\ xdata' = data
          /\ xerr' = IF Len(data) < 2 THEN "IndexError" ELSE ""
          /\ xpc' = IF Len(data) < 2 THEN "raised" ELSE "methods"
    /\ UNCHANGED <<lcli, lgreet, lreq, lout, xhost, xport, xdial, xdest, xsock,
                   xreply, xrelayed>>
    /\ UNCHANGED nonLocaleVars

\* sock.recv(n)
LocaleMethods ==
    /\ xpc = "methods"
    /\ \E data \in LocaleRecv(xdata[2]) : lin' = Rest(data)
    /\ xpc' = "choose"
    /\ UNCHANGED <<lcli, lgreet, lreq, lout, xdata, xhost, xport, xdial, xdest,
                   xsock, xreply, xrelayed, xerr>>
    /\ UNCHANGED nonLocaleVars

\* sock.send(bytes([0x05, 0x00]))
LocaleChoose ==
    /\ xpc = "choose"
    /\ \E k \in LocaleSend(MethodReply) :
          /\ lout' = lout \o SubSeq(MethodReply, 1, k)
          /\ xerr' = IF k = 0 THEN "OSError" ELSE ""
          /\ xpc' = IF k = 0 THEN "raised" ELSE "request"
    /\ UNCHANGED <<lcli, lgreet, lreq, lin, xdata, xhost, xport, xdial, xdest,
                   xsock, xreply, xrelayed>>
    /\ UNCHANGED nonLocaleVars

\* data = sock.recv(4) and the branch on data[3] of lines 203-214.
LocaleRequest ==
    /\ xpc = "request"
    /\ \E data \in LocaleRecv(4) :
          /\ lin' = Rest(data)
          /\ xdata' = data
          /\ xerr' = IF Len(data) < 4 THEN "IndexError"
                     ELSE IF data[4] \in {1, 3, 4} THEN ""
                     ELSE "unsupported dst"
          /\ xpc' = IF Len(data) < 4 THEN "raised"
                    ELSE IF data[4] = 1 THEN "addr4"
                    ELSE IF data[4] = 3 THEN "addrlen"
                    ELSE IF data[4] = 4 THEN "addr6"
                    ELSE "raised"
    /\ UNCHANGED <<lcli, lgreet, lreq, lout, xhost, xport, xdial, xdest, xsock,
                   xreply, xrelayed>>
    /\ UNCHANGED nonLocaleVars

\* data = sock.recv(4); host = ipaddress.IPv4Address(data).compressed
LocaleAddr4 ==
    /\ xpc = "addr4"
    /\ \E data \in LocaleRecv(4) :
          /\ lin' = Rest(data)
          /\ xdata' = data
          /\ IF Len(data) = 4
             THEN xhost' = Dotted(data) /\ xerr' = "" /\ xpc' = "port"
             ELSE xhost' = xhost /\ xerr' = "AddressValueError" /\ xpc' = "raised"
    /\ UNCHANGED <<lcli, lgreet, lreq, lout, xport, xdial, xdest, xsock, xreply,
                   xrelayed>>
    /\ UNCHANGED nonLocaleVars

\* data = sock.recv(1), and int(data[0]) of line 208.
LocaleAddrLen ==
    /\ xpc = "addrlen"
    /\ \E data \in LocaleRecv(1) :
          /\ lin' = Rest(data)
          /\ xdata' = data
          /\ xerr' = IF data = <<>> THEN "IndexError" ELSE ""
          /\ xpc' = IF data = <<>> THEN "raised" ELSE "addrname"
    /\ UNCHANGED <<lcli, lgreet, lreq, lout, xhost, xport, xdial, xdest, xsock,
                   xreply, xrelayed>>
    /\ UNCHANGED nonLocaleVars

\* data = sock.recv(int(data[0])); host = data.decode()
LocaleAddrName ==
    /\ xpc = "addrname"
    /\ \E data \in LocaleRecv(xdata[1]) :
          /\ lin' = Rest(data)
          /\ xdata' = data
          /\ IF \A i \in 1..Len(data) : data[i] < 128
             THEN xhost' = data /\ xerr' = "" /\ xpc' = "port"
             ELSE xhost' = xhost /\ xerr' = "UnicodeDecodeError" /\ xpc' = "raised"
    /\ UNCHANGED <<lcli, lgreet, lreq, lout, xport, xdial, xdest, xsock, xreply,
                   xrelayed>>
    /\ UNCHANGED nonLocaleVars

\* data = sock.recv(16); host = ipaddress.IPv6Address(data).compressed
LocaleAddr6 ==
    /\ xpc = "addr6"
    /\ \E data \in LocaleRecv(16) :
          /\ lin' = Rest(data)
          /\ xdata' = data
          /\ IF Len(data) = 16
             THEN xhost' = Compressed(data) /\ xerr' = "" /\ xpc' = "port"
             ELSE xhost' = xhost /\ xerr' = "AddressValueError" /\ xpc' = "raised"
    /\ UNCHANGED <<lcli, lgreet, lreq, lout, xport, xdial, xdest, xsock, xreply,
                   xrelayed>>
    /\ UNCHANGED nonLocaleVars

\* data = sock.recv(2); port = data[0] * 256 + data[1]
LocalePort ==
    /\ xpc = "port"
    /\ \E data \in LocaleRecv(2) :
          /\ lin' = Rest(data)
          /\ xdata' = data
          /\ IF Len(data) = 2
             THEN xport' = data[1] * 256 + data[2] /\ xerr' = "" /\ xpc' = "connect"
             ELSE xport' = xport /\ xerr' = "IndexError" /\ xpc' = "raised"
    /\ UNCHANGED <<lcli, lgreet, lreq, lout, xhost, xdial, xdest, xsock, xreply,
                   xrelayed>>
    /\ UNCHANGED nonLocaleVars

\* dest = self.dialer.connect(host, port): it returns a stream or raises.
LocaleConnect(ok) ==
    /\ xpc = "connect"
    /\ xdial' = IF ok THEN "ok" ELSE "raise"
    /\ xdest' = IF ok THEN "open" ELSE "none"
    /\ xpc' = IF ok THEN "reply_ok" ELSE "reply_fail"
    /\ UNCHANGED <<lcli, lgreet, lreq, lin, lout, xdata, xhost, xport, xsock,
                   xreply, xrelayed, xerr>>
    /\ UNCHANGED nonLocaleVars

\* except Exception: sock.send(bytes([0x05, 0x01, ...])); raise
LocaleReplyFail ==
    /\ xpc = "reply_fail"
    /\ \E k \in LocaleSend(FailReply) :
          /\ lout' = lout \o SubSeq(FailReply, 1, k)
          /\ xreply' = SubSeq(FailReply, 1, k)
          /\ xerr' = IF k = 0 THEN "OSError" ELSE "connect"
    /\ xpc' = "raised"
    /\ UNCHANGED <<lcli, lgreet, lreq, lin, xdata, xhost, xport, xdial, xdest,
                   xsock, xrelayed>>
    /\ UNCHANGED nonLocaleVars

\* else: sock.send(bytes([0x05, 0x00, ...]))
LocaleReplyOk ==
    /\ xpc = "reply_ok"
    /\ \E k \in LocaleSend(OkReply) :
          /\ lout' = lout \o SubSeq(OkReply, 1, k)
          /\ xreply' = SubSeq(OkReply, 1, k)
          /\ xerr' = IF k = 0 THEN "OSError" ELSE ""
          /\ xpc' = IF k = 0 THEN "raised" ELSE "splice"
    /\ UNCHANGED <<lcli, lgreet, lreq, lin, xdata, xhost, xport, xdial, xdest,
                   xsock, xrelayed>>
    /\ UNCHANGED nonLocaleVars

\* The splice of lines 225-226, as the local client sees it: copy(dest,
\* sock) sends it one more byte that dest.recv returned.
LocaleRelay ==
    /\ xpc = "splice"
    /\ xrelayed < MaxPayload
    /\ xrelayed' = xrelayed + 1
    /\ lout' = Append(lout, RelayByte)
    /\ UNCHANGED <<lcli, lgreet, lreq, lin, xpc, xdata, xhost, xport, xdial,
                   xdest, xsock, xreply, xerr>>
    /\ UNCHANGED nonLocaleVars

\* copy(dest, sock) leaves its loop: dest.close(), sock.close(), and _serve
\* returns.
LocaleSpliceReturn ==
    /\ xpc = "splice"
    /\ xdest' = "closed"
    /\ xsock' = "closed"
    /\ xpc' = "returned"
    /\ UNCHANGED <<lcli, lgreet, lreq, lin, lout, xdata, xhost, xport, xdial,
                   xreply, xrelayed, xerr>>
    /\ UNCHANGED nonLocaleVars

\* serve: print(e) when _serve raised, then sock.close().
LocaleServeClose ==
    /\ xpc \in {"raised", "returned"}
    /\ xsock' = "closed"
    /\ xpc' = "closed"
    /\ UNCHANGED <<lcli, lgreet, lreq, lin, lout, xdata, xhost, xport, xdial,
                   xdest, xreply, xrelayed, xerr>>
    /\ UNCHANGED nonLocaleVars

NextLocale ==
    \/ LocalGreet
    \/ LocalRequest
    \/ LocalClose
    \/ LocaleGreeting
    \/ LocaleMethods
    \/ LocaleChoose
    \/ LocaleRequest
    \/ LocaleAddr4
    \/ LocaleAddrLen
    \/ LocaleAddrName
    \/ LocaleAddr6
    \/ LocalePort
    \/ \E ok \in BOOLEAN : LocaleConnect(ok)
    \/ LocaleReplyFail
    \/ LocaleReplyOk
    \/ LocaleRelay
    \/ LocaleSpliceReturn
    \/ LocaleServeClose

\* ------------------------------------------------------------ the worker pool

\* The workers of the pool that are busy: one for each session in progress
\* (it runs serve, and at the splice the inline copy) and one more for each
\* submitted copy that has started.
BusyWorkers == hs + waiting + 2 * running

IdlePool == hs = -1 /\ waiting = -1 /\ running = -1

\* The process listens, its pool has no task.
InitPool == hs = 0 /\ waiting = 0 /\ running = 0

\* run: sock, _ = s.accept(); self.executor.submit(self.serve, sock), and a
\* free worker starts serve(sock).  (A serve submitted while every worker is
\* busy stays in the queue of the pool; its session is not in progress.)
PoolAccept ==
    /\ BusyWorkers < PoolSize
    /\ hs' = hs + 1
    /\ UNCHANGED <<waiting, running>>
    /\ UNCHANGED nonPoolVars

\* A session finishes its handshake: self.executor.submit(copy, ...), then
\* its worker enters copy(dest, ...) inline.
PoolSubmitCopy ==
    /\ hs > 0
    /\ hs' = hs - 1
    /\ waiting' = waiting + 1
    /\ UNCHANGED running
    /\ UNCHANGED nonPoolVars

\* A free worker takes a submitted copy from the queue of the pool.
PoolStartCopy ==
    /\ waiting > 0
    /\ BusyWorkers < PoolSize
    /\ waiting' = waiting - 1
    /\ running' = running + 1
    /\ UNCHANGED hs
    /\ UNCHANGED nonPoolVars

NextPool ==
    \/ PoolAccept
    \/ PoolSubmitCopy
    \/ PoolStartCopy

\* ---------------------------------------------------------- specifications

CipherInit == InitCipher /\ IdleSplice /\ IdleServer /\ IdleDialer /\ IdleLocale /\ IdlePool
SpecCipher == CipherInit /\ [][NextCipher]_vars

SpliceInit == InitSplice /\ IdleCipher /\ IdleServer /\ IdleDialer /\ IdleLocale /\ IdlePool
SpecSplice == SpliceInit /\ [][NextSplice]_vars

ServerInit == InitServer /\ IdleCipher /\ IdleSplice /\ IdleDialer /\ IdleLocale /\ IdlePool
SpecServer == ServerInit /\ [][NextServer]_vars

DialerInit == InitDialer /\ IdleCipher /\ IdleSplice /\ IdleServer /\ IdleLocale /\ IdlePool
SpecDialer == DialerInit /\ [][NextDialer]_vars

LocaleInit == InitLocale /\ IdleCipher /\ IdleSplice /\ IdleServer /\ IdleDialer /\ IdlePool
SpecLocale == LocaleInit /\ [][NextLocale]_vars

\* What the thread of loop l does by itself once it can: every step of copy,
\* a blocked src.recv returning when bytes, the end of the stream or a reset
\* arrive.  A src.recv blocked on a socket that another thread closes is not
\* among them: whether close() wakes it depends on the platform (on Linux it
\* does not).
LoopStep(l) ==
    \/ RecvCall(l)
    \/ \E n \in 1..MaxPayload : RecvReturn(l, n)
    \/ RecvEOF(l)
    \/ RecvRaise(l) /\ broken[Src(l)]
    \/ SendRaise(l)
    \/ SendFramed(l)
    \/ \E k \in 1..MaxPayload : SendRaw(l, k)
    \/ CloseSrc(l)
    \/ CloseDst(l)

\* The end of a splice that carries no payload: the remote ends only close
\* or reset, or stay silent.  The threads are scheduled fairly and a worker
\* is free for the submitted copy; the remote ends do as they please.
NextTeardown ==
    \/ Submit
    \/ PoolStart
    \/ \E l \in Loops : RecvCall(l)
    \/ \E l \in Loops : RecvEOF(l)
    \/ \E l \in Loops : RecvRaise(l)
    \/ \E l \in Loops : CloseSrc(l)
    \/ \E l \in Loops : CloseDst(l)
    \/ ServeReturn
    \/ ServeClose
    \/ \E e \in Ends : PeerClose(e)
    \/ \E e \in Ends : PeerReset(e)

FairSpecTeardown ==
    /\ SpliceInit
    /\ [][NextTeardown]_vars
    /\ \A l \in Loops : WF_vars(LoopStep(l))
    /\ WF_vars(Submit) /\ WF_vars(PoolStart)
    /\ WF_vars(ServeReturn) /\ WF_vars(ServeClose)

PoolInit == InitPool /\ IdleCipher /\ IdleSplice /\ IdleServer /\ IdleDialer /\ IdleLocale
SpecPool == PoolInit /\ [][NextPool]_vars

\* The pool's threads are scheduled fairly: a free worker takes a queued
\* task, and a session's worker goes on to the splice.
FairSpecPool ==
    SpecPool /\ WF_vars(PoolStartCopy) /\ WF_vars(PoolSubmitCopy)

\* ------------------------------------------------------------------ claims

\* C1. Splice transparency: in each direction of a session the bytes
\* written to the receiving stream are the bytes read from the sending
\* stream, whatever the chunks the sockets read and write: what the remote
\* end of dst has received is always a prefix of what the loop has read from
\* src, and all of it whenever the loop is back at src.recv.
C1_SpliceTransparency ==
    \A l \in Loops :
        /\ IsPrefix(delivered[Dst(l)], rd[l])
        /\ lpc[l] \in {"top", "inrecv"} => delivered[Dst(l)] = rd[l]

\* C6. Whenever a copy loop has returned, both of its streams have been
\* closed, and so have both streams of the session once the splice is over.
C6_BothClosedOnReturn ==
    /\ \A l \in Loops : lpc[l] = "done" => closed["a"] /\ closed["b"]
    /\ fpc \in {"returned", "closed"} => closed["a"] /\ closed["b"]

\* The splice is over, one loop having ended on a write error and the other
\* at the end of its stream.
C6_Witness ==
    /\ fpc = "returned"
    /\ lpc["pool"] = "done"
    /\ why["pool"] = "werr"
    /\ why["inline"] = "eof"

\* C7 as stated: the splice step returns only after both copy loops, the
\* submitted one and the inline one, have completed.
C7_ReturnsAfterBothLoops ==
    fpc \in {"returned", "closed"} => \A l \in Loops : lpc[l] = "done"

\* C7 as amended: the splice step returns only after the copy loop run
\* inline has completed; the loop submitted to the pool is not waited for.
C7_ReturnsAfterInlineLoop ==
    fpc \in {"returned", "closed"} => lpc["inline"] = "done"

\* _serve has returned while the submitted copy has not started yet.
C7_Witness ==
    /\ fpc = "returned"
    /\ lpc["pool"] = "queued"

\* C4. Keystream symmetry: for every valid key K and byte sequence M,
\* transforming M with a fresh Cipher(K) and the result with another fresh
\* Cipher(K) yields M.
C4_KeystreamSymmetry == cpc = "decrypted" => dec = cmsg

\* A 3-byte message was transformed to something else and back.
C4_Witness ==
    /\ cpc = "decrypted"
    /\ Len(cmsg) = MaxMsgLen
    /\ enc # cmsg
    /\ Len(ck) = 128

\* C5. FramedConn stream contract: two GravityDazeConn built with the same
\* key; however the data is split into send calls and into recv results,
\* the recv results concatenated are the sent data concatenated (a prefix
\* of it while bytes are in flight).
C5_StreamContract ==
    /\ Len(rcvd) <= Len(sent)
    /\ rcvd = SubSeq(sent, 1, Len(rcvd))
    /\ wire = <<>> => rcvd = sent

\* Everything arrived, through send calls and recv results that split the
\* data at different places.
C5_Witness ==
    /\ Len(sent) = MaxMsgLen
    /\ rcvd = sent
    /\ sendLens = <<1, MaxMsgLen - 1>>
    /\ recvLens = <<MaxMsgLen - 1, 1>>
    /\ Len(ck) = 128

\* C2: Server._serve never dials and never reaches the splice for a session
\* whose first 128 bytes, deobfuscated, do not begin with 0xFF 0xFF or carry
\* in bytes [120..128) a timestamp more than 60 seconds from the server
\* clock.  (Refuted: a recv(128) that returns 126 bytes lets in a frame whose
\* eight timestamp bytes are far from the clock.)
C2_HandshakeAuthenticity ==
    (/\ kpc = "sent"
     /\ LET wireFrame == SubSeq(plain, 1, FrameLen)
        IN \/ BadMagic(wireFrame)
           \/ Expired(now, nowFrac, Timestamp(wireFrame)))
    => (dialed = <<>> /\ ~destOpen /\ vpc # "splice")

\* C3: when Server._serve has parsed the destination of a session of
\* Client.connect whose "host:port" is 1..255 long, the host and port it
\* dials are the host and port the client was asked to reach.  (Refuted: a
\* host with ':' in it, and a recv(258) that returns less than the header.)
C3_AddressRoundTrip ==
    (/\ origin = "client"
     /\ kpc = "sent"
     /\ vpc \in {"dial", "splice"} \/ dialed # <<>>)
    => (dHost = cHost /\ dPort = cPort)

\* C8: once surmise has an IP for the host (the literal, or the first record
\* of the DNS answer), it returns DIRECT (0) when the IP is private or inside
\* some network of the loaded table, and TUNNELED (1) otherwise.
C8_Routing ==
    ip # NoIP =>
        road = (IF is_private(ip) \/ \E k \in 1..Len(cidr_list) : InNet(ip, cidr_list[k])
                THEN DIRECT ELSE TUNNELED)

\* C8 witness: a name resolved to a public IP inside the last network of the
\* table, and surmise returned DIRECT.
C8_Witness ==
    /\ qHost.kind = "name"
    /\ dns = "answer"
    /\ ~is_private(ip)
    /\ InNet(ip, cidr_list[Len(cidr_list)])
    /\ road = DIRECT

\* C9: when the resolution of a name has failed, surmise has returned
\* TRY_DIRECT_ELSE_TUNNELED (2), and connect does not fail before it has
\* tried the direct dial and then the tunneled dial.  (Refuted: the resolver
\* reports a failure by raising, which ends surmise and connect.)
C9_DnsFailureDegrades ==
    dns \in {"empty", "raise"} =>
        /\ road = TRY_DIRECT_ELSE_TUNNELED
        /\ dpc = "raised" => dials = <<"direct", "tunnel">>

\* C10: a session that reached self.dialer.connect and went on to the
\* splice, or ended, has sent the local client the whole 10-byte reply of
\* its case (OkReply when connect returned, FailReply when it raised), and
\* no byte is relayed to the local client before the whole OkReply.
\* (Refuted: sock.send may accept only a part of the reply, or raise.)
C10_OneReplyBeforeRelay ==
    /\ (xdial = "ok" /\ xpc \in {"splice", "returned", "raised", "closed"})
           => xreply = OkReply
    /\ (xdial = "raise" /\ xpc \in {"raised", "closed"}) => xreply = FailReply
    /\ xrelayed > 0 => xreply = OkReply

\* C11: for a request whose CMD byte is not 1 (CONNECT), Locale._serve does
\* not call self.dialer.connect and no upstream stream exists.  (Refuted:
\* data[1] of the request is never looked at.)
C11_ConnectOnly ==
    (lcli # "idle" /\ lreq[2] # 1) => (xdial = "" /\ xdest = "none")

\* C12: when serve has finished a session whose handshake failed, the
\* inbound socket is closed, the session has no open outbound socket, its
\* worker is free again, and Server.run can accept a later connection and a
\* worker of the pool can serve it.
C12_FailureIsolation ==
    vpc = "closed" =>
        /\ sockClosed
        /\ ~destOpen
        /\ Busy < PoolSize
        /\ later < MaxLater => ENABLED RunAccept
        /\ laterServed < later => ENABLED PoolServeLater

\* C12 witness: the upstream dial failed, serve closed the session, and a
\* later connection was accepted and is being served.
C12_Witness ==
    /\ vpc = "closed"
    /\ err = "OSError"
    /\ dialed # <<>>
    /\ laterServed >= 1

\* C13, as stated: a Cipher of the key "Key" applied to "Plaintext" outputs
\* EB 9F 77 81 B7 34 CA 72 A7 19.  (Refuted: these ten bytes are the
\* keystream; the output has the nine bytes of the text XORed with it.)
C13_KnownAnswerAsStated ==
    (ck = KatKey /\ cmsg = KatPlaintext /\ cpc # "fresh")
        => enc = <<235, 159, 119, 129, 183, 52, 202, 114, 167, 25>>

\* C13, amended: a Cipher of the key "Key" applied to "Plaintext" outputs
\* the ciphertext BB F3 16 E8 D9 40 AF 0A D3.
C13_KnownAnswer ==
    (ck = KatKey /\ cmsg = KatPlaintext /\ cpc # "fresh")
        => enc = <<187, 243, 22, 232, 217, 64, 175, 10, 211>>

\* C13 witness: the Cipher of "Key" has transformed "Plaintext".
C13_Witness ==
    /\ ck = KatKey
    /\ cmsg = KatPlaintext
    /\ cpc = "encrypted"
    /\ Len(enc) = 9

\* C14: when a session of Client.connect reaches the splice, Server._serve
\* has read exactly 128 key bytes, then exactly 128 and exactly 258
\* obfuscated bytes, and nothing of the 128 + 386 bytes is left for the
\* splice to relay.  (Refuted: recv returns fewer bytes than asked for.)
C14_ExactConsumption ==
    (origin = "client" /\ vpc = "splice") =>
        /\ Len(skey) = KeyLen
        /\ Len(frame) = FrameLen
        /\ Len(hdr) = HeaderLen
        /\ inq = <<>>

\* C15: whenever sessions are at the splice with their submitted copy not
\* started, eventually every such copy has started, while no session ends.
\* (Refuted: once the sessions in progress hold every worker of the pool,
\* their copies stay in the queue for ever.)
C15_CopyEventuallyStarts == (waiting > 0) ~> (waiting = 0)

\* C16: once a copy loop of the session has returned, eventually the other
\* one has returned too, both streams are closed and serve has finished.
\* (Refuted: the other loop may be blocked in src.recv on a socket that the
\* first loop closed, and close() does not wake it.)
C16_PeerLoopTerminates ==
    (lpc["pool"] = "done" \/ lpc["inline"] = "done")
        ~> (/\ lpc["pool"] = "done" /\ lpc["inline"] = "done"
            /\ closed["a"] /\ closed["b"]
            /\ fpc = "closed")

\* C17: Dialer.connect dials as road says: for DIRECT only the destination,
\* at most once, never the daze server; for TUNNELED only the tunneled dial,
\* at most once; for TRY_DIRECT_ELSE_TUNNELED the direct dial first and the
\* tunneled dial only after the direct one has failed; nothing before
\* surmise has returned.
C17_RouteExecuted ==
    /\ road = -1 => dials = <<>>
    /\ road = DIRECT => dials \in {<<>>, <<"direct">>}
    /\ road = TUNNELED => dials \in {<<>>, <<"tunnel">>}
    /\ road = TRY_DIRECT_ELSE_TUNNELED =>
          /\ dials \in {<<>>, <<"direct">>, <<"direct", "tunnel">>}
          /\ Len(dials) = 2 => route # "direct"
    /\ route = "direct" => dials = <<"direct">>

\* C17 witness: road 2, the direct dial failed and the tunneled dial gave the
\* stream.
C17_Witness ==
    /\ road = TRY_DIRECT_ELSE_TUNNELED
    /\ dials = <<"direct", "tunnel">>
    /\ route = "tunnel"
    /\ dpc = "returned"

\* C18: when Locale.serve has finished a session, the local socket is closed
\* and the stream that self.dialer.connect returned, if any, is closed.
\* (Refuted: when sock.send of the success reply raises, dest is dropped
\* without close.)
C18_ClosedOnEveryPath ==
    xpc = "closed" => (xsock = "closed" /\ xdest \in {"none", "closed"})

\* The threads that are inside e.recv, which transforms the read cipher of
\* the GravityDazeConn e, and those that are inside e.send, which transforms
\* its write cipher.
InReadCipher(e) ==
    {l \in Loops : Framed(site, e) /\ Src(l) = e /\ lpc[l] = "inrecv"}
InWriteCipher(e) ==
    {l \in Loops : Framed(site, e) /\ Dst(l) = e /\ lpc[l] = "send"}

\* C19: at every moment at most one thread is in the read cipher and at most
\* one in the write cipher of a GravityDazeConn; while the session's worker
\* has not left the handshake (it has not submitted the copy) no other
\* thread of the session exists; and no step changes the read cipher and the
\* write cipher of a GravityDazeConn together.
C19_KeystreamConfinement ==
    /\ [](\A e \in Ends :
             /\ Cardinality(InReadCipher(e)) <= 1
             /\ Cardinality(InWriteCipher(e)) <= 1)
    /\ [](fpc = "submit" => \A l \in Loops : lpc[l] = "none")
    /\ [][\A e \in Ends : conn'[e].rc = conn[e].rc \/ conn'[e].wc = conn[e].wc]_vars

\* C19 witness: on the server one thread is in conn.recv and the other in
\* conn.send of the same GravityDazeConn, after each has transformed bytes.
C19_Witness ==
    /\ site = "server"
    /\ InReadCipher("a") = {"pool"}
    /\ InWriteCipher("a") = {"inline"}
    /\ conn["a"].rc # ServerConn.rc
    /\ conn["a"].wc # ServerConn.wc

\* C20: in a session of Client.connect, either the client failed with an
\* error, sent no frame and closed the connection, or the timestamp the
\* server decodes from data[120:128] (once the frame has passed the check
\* of its first two bytes) is the client's clock value.  (Refuted: the
\* server decodes the bytes of a frame that conn.recv(128) returned short.)
C20_TimestampAgreement ==
    origin = "client" =>
        /\ kpc = "failed" => (plain = <<>> /\ inqEOF)
        /\ PackError(cClock) => kpc \in {"start", "failed"}
        /\ (kpc = "sent" /\ Len(frame) >= 2 /\ ~BadMagic(frame))
               => Timestamp(frame) = cClock

====
